---- MODULE Spec2Model ----
(***************************************************************************)
(* The EDS-TEM quantification notebook                                     *)
(* (TEM_EDS_Tutorial_HyperSpy_CoreShellNanoparticles.ipynb) as a state     *)
(* machine: one action per code cell of the pipeline, run top to bottom.   *)
(*                                                                         *)
(* Arrays are functions over 1..n, indexed in numpy's data order           *)
(* data[y][x][e].  A signal is a record                                    *)
(*   [nav, sig, dtype, data]                                               *)
(* where nav and sig are the navigation and signal shapes.                 *)
(*                                                                         *)
(* Calls whose arithmetic is written in the notebook (>, *, sum) are       *)
(* computed.  Calls whose arithmetic lives inside the HyperSpy library     *)
(* (decomposition, blind source separation, background-subtracted line     *)
(* intensities, quantification) are kept as what the notebook shows of     *)
(* them: the arguments they are applied to, or an outcome chosen from a    *)
(* small set.  Any library call may raise; the notebook has no handler.    *)
(*                                                                         *)
(* Energies are integers in units of 1e-8 keV, k-factors in units of 1e-6. *)
(***************************************************************************)
EXTENDS Integers, Sequences, FiniteSets, TLC

\* ---- bounds of the model ----
NX == 2
NY == 2
NE == 2

\* ---- constants written in the notebook ----
MaskThreshold == 6
BssComponents == 3
RefinedLow == 844000000
RefinedHigh == 865000000

XAxis == 1..NX
YAxis == 1..NY
Chan == 1..NE

VARIABLES pc, err, c, cs, learning_results, s_bss, pt_la, mask, c_mask,
          s_bare, s, w, sI, kfactors, composition

vars == <<pc, err, c, cs, learning_results, s_bss, pt_la, mask, c_mask,
          s_bare, s, w, sI, kfactors, composition>>

\* ---- values a name has before its cell has run ----
NoSignal == [nav |-> <<>>, sig |-> <<>>, dtype |-> "unset", data |-> <<>>]
NoLearning == [decomposed |-> FALSE, bss_factors |-> <<>>]
NoTable == <<>>
NoResult == [op |-> "unset"]

Signal(nav, sig, dtype, data) ==
    [nav |-> nav, sig |-> sig, dtype |-> dtype, data |-> data]

RECURSIVE SumTo(_, _)
SumTo(f, n) == IF n = 0 THEN 0 ELSE f[n] + SumTo(f, n - 1)

\* numpy sum of a 1D array
Sum(f) == SumTo(f, Len(f))

\* ---- the data files ----
\* One pixel's spectrum: no counts (vacuum), a pixel whose Pt_La counts sit
\* exactly at the mask threshold, and a pixel above it.
PixelSpectra ==
    { [e \in Chan |-> 0],
      [e \in Chan |-> IF e = NE THEN MaskThreshold ELSE 1],
      [e \in Chan |-> IF e = NE THEN MaskThreshold + 1 ELSE 2] }

Cube(d) == Signal(<<NX, NY>>, <<NE>>, "int", d)

BareCoreCubes == { Cube(d) : d \in [YAxis -> [XAxis -> PixelSpectra]] }

\* The core-shell file is a separate acquisition: its navigation shape is
\* its own, the same as the bare-core cube's or not.
CoreShellCubes ==
    { Signal(<<nx, NY>>, <<NE>>, "int",
             [y \in YAxis |->
                 [x \in 1..nx |->
                     [e \in Chan |-> IF e = NE THEN MaskThreshold + 1 ELSE 2]]])
        : nx \in {NX, NX + 1} }

\* The factors blind source separation may return: the same components in
\* either order (the order and sign of independent components are not fixed).
BssOutcomes ==
    { [i \in 1..BssComponents |-> [e \in Chan |-> i + e]],
      [i \in 1..BssComponents |-> [e \in Chan |-> (BssComponents + 1 - i) + e]] }

\* ---- array operations written in the notebook ----

\* a comparison that also accepts the threshold itself
GreaterOrEqual(a, V) ==
    Signal(a.nav, a.sig, "bool",
           [y \in DOMAIN a.data |->
               [x \in DOMAIN a.data[y] |-> a.data[y][x] >= V]])

\* signal > V, element by element
Greater(a, V) ==
    Signal(a.nav, a.sig, "bool",
           [y \in DOMAIN a.data |->
               [x \in DOMAIN a.data[y] |-> a.data[y][x] > V]])

\* the Masker: mask = P > V
Masker(P, V) == Greater(P, V)

\* a boolean used as a number
AsNumber(b) == IF b THEN 1 ELSE 0

\* a product that uses the complement of the mask
MultiplyInverted(a, m) ==
    Signal(a.nav, a.sig, a.dtype,
           [y \in DOMAIN a.data |->
               [x \in DOMAIN a.data[y] |->
                   [e \in DOMAIN a.data[y][x] |->
                       a.data[y][x][e] * AsNumber(~m.data[y][x])]]])

\* cube * mask: the mask has the cube's navigation shape and no signal
\* axis, so each pixel's whole spectrum is multiplied by that pixel's flag
Multiply(a, m) ==
    Signal(a.nav, a.sig, a.dtype,
           [y \in DOMAIN a.data |->
               [x \in DOMAIN a.data[y] |->
                   [e \in DOMAIN a.data[y][x] |->
                       a.data[y][x][e] * AsNumber(m.data[y][x])]]])

\* signal.sum(0): sum over the first navigation axis, which is the last
\* navigation axis of the data array
SumAxis0(a) ==
    IF Len(a.nav) = 2
    THEN Signal(Tail(a.nav), a.sig, a.dtype,
                [y \in DOMAIN a.data |->
                    [e \in 1..a.sig[1] |->
                        SumTo([x \in DOMAIN a.data[y] |-> a.data[y][x][e]],
                              a.nav[1])]])
    ELSE Signal(<<>>, a.sig, a.dtype,
                [e \in 1..a.sig[1] |->
                    SumTo([y \in DOMAIN a.data |-> a.data[y][e]], a.nav[1])])

\* the Spectrum Aggregator: (cube * mask).sum(0).sum(0)
Aggregator(a, m) == SumAxis0(SumAxis0(Multiply(a, m)))

\* cube.get_lines_intensity(['Pt_La'])[0]: the counts of each pixel summed
\* over the channels of the line's integration window, as an image
PtLaChannels == {NE}

LineIntensityMap(a) ==
    Signal(<<>>, a.nav, "float",
           [y \in DOMAIN a.data |->
               [x \in DOMAIN a.data[y] |->
                   SumTo([e \in DOMAIN a.data[y][x] |->
                            IF e \in PtLaChannels THEN a.data[y][x][e] ELSE 0],
                         a.sig[1])]])

\* cube.vacuum_mask() with its data overwritten: a signal with the cube's
\* navigation axes, no signal axis, and the given data
TemplateMask(a, d) == Signal(a.nav, <<>>, "bool", d)

ChangeDtype(a, t) == [a EXCEPT !.dtype = t]

\* hs.stack([a, b]): a new navigation axis over the two spectra
Stack(a, b) == Signal(<<2>>, a.sig, a.dtype, <<a.data, b.data>>)

\* ---- the background window table ----
\* s.estimate_background_windows(), as the notebook prints it: one row per
\* X-ray line (Fe_Ka, Pt_La), two windows per row
EstimatedWindows ==
    << <<599000266, 612796844, 667983156, 681779734>>,
       <<895253846, 911572564, 976847436, 993166154>> >>

\* the lower boundary written with the upper boundary's value
RefineLowWrongValue(t) == [t EXCEPT ![2][1] = RefinedHigh]

\* w[1, 0] = 8.44
RefineLow(t) == [t EXCEPT ![2][1] = RefinedLow]

\* w[1, 1] = 8.65
RefineHigh(t) == [t EXCEPT ![2][2] = RefinedHigh]

\* kfactors = [1.450226, 5.075602]
KFactorValues == <<1450226, 5075602>>

\* ---- the cells ----
Init ==
    /\ pc = "Load"
    /\ err = "none"
    /\ c = NoSignal
    /\ cs = NoSignal
    /\ learning_results = NoLearning
    /\ s_bss = NoSignal
    /\ pt_la = NoSignal
    /\ mask = NoSignal
    /\ c_mask = NoSignal
    /\ s_bare = NoSignal
    /\ s = NoSignal
    /\ w = NoTable
    /\ sI = NoResult
    /\ kfactors = <<>>
    /\ composition = NoResult

\* c = hs.load('bare_core.hdf5'); cs = hs.load('core_shell.hdf5')
Load ==
    /\ pc = "Load"
    /\ \E a \in BareCoreCubes, b \in CoreShellCubes :
          /\ c' = a
          /\ cs' = b
    /\ pc' = "Decompose"
    /\ UNCHANGED <<err, learning_results, s_bss, pt_la, mask, c_mask, s_bare,
                   s, w, sI, kfactors, composition>>

\* cs.change_dtype('float'); cs.decomposition()
Decompose ==
    /\ pc = "Decompose"
    /\ cs' = ChangeDtype(cs, "float")
    /\ learning_results' = [learning_results EXCEPT !.decomposed = TRUE]
    /\ pc' = "BlindSourceSeparation"
    /\ UNCHANGED <<err, c, s_bss, pt_la, mask, c_mask, s_bare, s, w, sI,
                   kfactors, composition>>

\* cs.blind_source_separation(3)
BlindSourceSeparation ==
    /\ pc = "BlindSourceSeparation"
    /\ \E f \in BssOutcomes :
          learning_results' = [learning_results EXCEPT !.bss_factors = f]
    /\ pc' = "GetFactor"
    /\ UNCHANGED <<err, c, cs, s_bss, pt_la, mask, c_mask, s_bare, s, w, sI,
                   kfactors, composition>>

\* s_bss = cs.get_bss_factors().inav[0]
GetFactor ==
    /\ pc = "GetFactor"
    /\ s_bss' = Signal(<<>>, cs.sig, "float", learning_results.bss_factors[1])
    /\ pc' = "Mask"
    /\ UNCHANGED <<err, c, cs, learning_results, pt_la, mask, c_mask, s_bare,
                   s, w, sI, kfactors, composition>>

\* the intensity map taken from the core-shell cube instead
MaskFromCoreShell ==
    /\ pc = "Mask"
    /\ pt_la' = LineIntensityMap(cs)
    /\ mask' = Masker(LineIntensityMap(cs), MaskThreshold)
    /\ pc' = "BuildMask"
    /\ UNCHANGED <<err, c, cs, learning_results, s_bss, c_mask, s_bare, s, w,
                   sI, kfactors, composition>>

\* pt_la = c.get_lines_intensity(['Pt_La'])[0]; mask = pt_la > 6
Mask ==
    /\ pc = "Mask"
    /\ pt_la' = LineIntensityMap(c)
    /\ mask' = Masker(LineIntensityMap(c), MaskThreshold)
    /\ pc' = "BuildMask"
    /\ UNCHANGED <<err, c, cs, learning_results, s_bss, c_mask, s_bare, s, w,
                   sI, kfactors, composition>>

\* c_mask = c.vacuum_mask(); c_mask.data = mask.data
BuildMask ==
    /\ pc = "BuildMask"
    /\ c_mask' = TemplateMask(c, mask.data)
    /\ pc' = "Aggregate"
    /\ UNCHANGED <<err, c, cs, learning_results, s_bss, pt_la, mask, s_bare,
                   s, w, sI, kfactors, composition>>

\* the product written back into the cube (c *= c_mask)
AggregateInPlace ==
    /\ pc = "Aggregate"
    /\ c' = Multiply(c, c_mask)
    /\ s_bare' = Aggregator(c, c_mask)
    /\ pc' = "StackSpectra"
    /\ UNCHANGED <<err, cs, learning_results, s_bss, pt_la, mask, c_mask,
                   s, w, sI, kfactors, composition>>

\* s_bare = (c * c_mask).sum(0).sum(0)
Aggregate ==
    /\ pc = "Aggregate"
    /\ s_bare' = Aggregator(c, c_mask)
    /\ pc' = "StackSpectra"
    /\ UNCHANGED <<err, c, cs, learning_results, s_bss, pt_la, mask, c_mask,
                   s, w, sI, kfactors, composition>>

\* s_bare.change_dtype('float'); s = hs.stack([s_bare, s_bss], ...)
StackSpectra ==
    /\ pc = "StackSpectra"
    /\ s_bare' = ChangeDtype(s_bare, "float")
    /\ s' = Stack(ChangeDtype(s_bare, "float"), s_bss)
    /\ pc' = "EstimateWindows"
    /\ UNCHANGED <<err, c, cs, learning_results, s_bss, pt_la, mask, c_mask,
                   w, sI, kfactors, composition>>

\* the estimate followed directly by the intensity cell, refinement left out
EstimateWindowsUnrefined ==
    /\ pc = "EstimateWindows"
    /\ w' = EstimatedWindows
    /\ pc' = "LinesIntensity"
    /\ UNCHANGED <<err, c, cs, learning_results, s_bss, pt_la, mask, c_mask,
                   s_bare, s, sI, kfactors, composition>>

\* w = s.estimate_background_windows()
EstimateWindows ==
    /\ pc = "EstimateWindows"
    /\ w' = EstimatedWindows
    /\ pc' = "RefineLow"
    /\ UNCHANGED <<err, c, cs, learning_results, s_bss, pt_la, mask, c_mask,
                   s_bare, s, sI, kfactors, composition>>

\* w[1, 0] = 8.44
RefineWindowLow ==
    /\ pc = "RefineLow"
    /\ w' = RefineLow(w)
    /\ pc' = "RefineHigh"
    /\ UNCHANGED <<err, c, cs, learning_results, s_bss, pt_la, mask, c_mask,
                   s_bare, s, sI, kfactors, composition>>

\* w[1, 1] = 8.65
RefineWindowHigh ==
    /\ pc = "RefineHigh"
    /\ w' = RefineHigh(w)
    /\ pc' = "LinesIntensity"
    /\ UNCHANGED <<err, c, cs, learning_results, s_bss, pt_la, mask, c_mask,
                   s_bare, s, sI, kfactors, composition>>

\* sI = s.get_lines_intensity(background_windows=w)
LinesIntensity ==
    /\ pc = "LinesIntensity"
    /\ sI' = [op |-> "get_lines_intensity", signal |-> s,
              background_windows |-> w]
    /\ pc' = "SetKFactors"
    /\ UNCHANGED <<err, c, cs, learning_results, s_bss, pt_la, mask, c_mask,
                   s_bare, s, w, kfactors, composition>>

\* kfactors = [1.450226, 5.075602]
SetKFactors ==
    /\ pc = "SetKFactors"
    /\ kfactors' = KFactorValues
    /\ pc' = "Quantify"
    /\ UNCHANGED <<err, c, cs, learning_results, s_bss, pt_la, mask, c_mask,
                   s_bare, s, w, sI, composition>>

\* composition = s.quantification(intensities=sI, kfactors=kfactors,
\*                                plot_result=True, composition_units='atomic')
Quantify ==
    /\ pc = "Quantify"
    /\ composition' = [op |-> "quantification", signal |-> s,
                       intensities |-> sI, kfactors |-> kfactors,
                       composition_units |-> "atomic"]
    /\ pc' = "Done"
    /\ UNCHANGED <<err, c, cs, learning_results, s_bss, pt_la, mask, c_mask,
                   s_bare, s, w, sI, kfactors>>

\* The cells that call into the library; each of them may raise.
LibrarySteps ==
    {"Load", "Decompose", "BlindSourceSeparation", "GetFactor", "Mask",
     "BuildMask", "Aggregate", "StackSpectra", "EstimateWindows",
     "LinesIntensity", "Quantify"}

\* a run that goes back to the cell that raised
AfterRaiseRetry(step) == step

\* Where control goes when a cell raises: nothing catches the exception, so
\* the run ends there.
AfterRaise(step) == "Failed"

\* A cell raises before it binds anything.
Raise ==
    /\ pc \in LibrarySteps
    /\ err' = pc
    /\ pc' = AfterRaise(pc)
    /\ UNCHANGED <<c, cs, learning_results, s_bss, pt_la, mask, c_mask,
                   s_bare, s, w, sI, kfactors, composition>>

\* A cell of two statements raises in its second statement, after the first
\* has taken effect.
RaiseInSecondStatement ==
    /\ \/ /\ pc = "Load"
          /\ \E a \in BareCoreCubes : c' = a
          /\ UNCHANGED <<cs, pt_la, s_bare>>
       \/ /\ pc = "Decompose"
          /\ cs' = ChangeDtype(cs, "float")
          /\ UNCHANGED <<c, pt_la, s_bare>>
       \/ /\ pc = "Mask"
          /\ pt_la' = LineIntensityMap(c)
          /\ UNCHANGED <<c, cs, s_bare>>
       \/ /\ pc = "StackSpectra"
          /\ s_bare' = ChangeDtype(s_bare, "float")
          /\ UNCHANGED <<c, cs, pt_la>>
    /\ err' = pc
    /\ pc' = AfterRaise(pc)
    /\ UNCHANGED <<learning_results, s_bss, mask, c_mask, s, w, sI, kfactors,
                   composition>>

Next ==
    \/ Load
    \/ Decompose
    \/ BlindSourceSeparation
    \/ GetFactor
    \/ Mask
    \/ BuildMask
    \/ Aggregate
    \/ StackSpectra
    \/ EstimateWindows
    \/ RefineWindowLow
    \/ RefineWindowHigh
    \/ LinesIntensity
    \/ SetKFactors
    \/ Quantify
    \/ Raise
    \/ RaiseInSecondStatement

Spec == Init /\ [][Next]_vars

\* ---- the claims ----

\* the characteristic energies of the lines of the table's rows
\* (Fe_Ka 6.4039 keV, Pt_La 9.4421 keV)
LineEnergy == <<640390000, 944210000>>

\* the total of a cube's counts over the pixels a mask selects
MaskedTotal(a, m) ==
    SumTo([y \in YAxis |->
             SumTo([x \in XAxis |->
                      IF m.data[y][x] THEN Sum(a.data[y][x]) ELSE 0], NX)],
          NY)

AllMasks == [YAxis -> [XAxis -> BOOLEAN]]

\* The Aggregator on its own: every mask of the navigation shape applied to
\* cubes whose pixels all hold counts.
AggregatorCubes ==
    { Cube(d) : d \in [YAxis -> [XAxis -> PixelSpectra \ {[e \in Chan |-> 0]}]] }

AggregatorInit ==
    /\ pc = "Aggregate"
    /\ err = "none"
    /\ c \in AggregatorCubes
    /\ c_mask \in { Signal(<<NX, NY>>, <<>>, "bool", M) : M \in AllMasks }
    /\ cs = NoSignal
    /\ learning_results = NoLearning
    /\ s_bss = NoSignal
    /\ pt_la = NoSignal
    /\ mask = NoSignal
    /\ s_bare = NoSignal
    /\ s = NoSignal
    /\ w = NoTable
    /\ sI = NoResult
    /\ kfactors = <<>>
    /\ composition = NoResult

AggregatorNext == Aggregate

AggregatorSpec == AggregatorInit /\ [][AggregatorNext]_vars

\* C1: the spectrum the Aggregator returns is 1D and its total over the
\* energy axis is the sum of the cube's counts at the pixels where the mask
\* is true.
C1_AggregatorTotal ==
    s_bare.dtype # "unset" =>
       /\ s_bare.nav = <<>>
       /\ s_bare.sig = <<NE>>
       /\ Sum(s_bare.data) = MaskedTotal(c, c_mask)

\* the bare-core spectrum has been computed from a mask with a true pixel
\* and a false pixel that holds counts
C1_Witness ==
    /\ pc = "StackSpectra"
    /\ \E y \in YAxis, x \in XAxis : c_mask.data[y][x]
    /\ \E y \in YAxis, x \in XAxis :
          ~c_mask.data[y][x] /\ Sum(c.data[y][x]) > 0

Thresholds == 0..(MaskThreshold + 2)

\* C2: every true pixel of the mask has an intensity above the threshold and
\* every false pixel an intensity at or below it, for the mask the run
\* computes and for the Masker at every threshold.
C2_MaskStrictThreshold ==
    mask.dtype # "unset" =>
       /\ \A y \in YAxis, x \in XAxis :
             /\ mask.data[y][x] => pt_la.data[y][x] > MaskThreshold
             /\ ~mask.data[y][x] => pt_la.data[y][x] <= MaskThreshold
       /\ pc = "BuildMask" =>
             \A V \in Thresholds :
                LET m == Masker(pt_la, V)
                IN  \A y \in YAxis, x \in XAxis :
                       /\ m.data[y][x] => pt_la.data[y][x] > V
                       /\ ~m.data[y][x] => pt_la.data[y][x] <= V

\* the mask has been computed from a map with a pixel exactly at the
\* threshold (false) and a pixel above it (true)
C2_Witness ==
    /\ pc = "BuildMask"
    /\ \E y \in YAxis, x \in XAxis :
          pt_la.data[y][x] = MaskThreshold /\ ~mask.data[y][x]
    /\ \E y \in YAxis, x \in XAxis :
          pt_la.data[y][x] > MaskThreshold /\ mask.data[y][x]

\* C9: once a cell has raised, no cell runs (the failing cell is not run
\* again and no later cell runs), the run is at its end with the error of
\* that cell, and no composition has been produced.
C9_ErrorEndsRun ==
    /\ [](err # "none" => pc = "Failed" /\ composition = NoResult)
    /\ [][err = "none"]_vars

\* the aggregation cell has raised after the mask was built
C9_Witness ==
    /\ pc = "Failed"
    /\ err = "Aggregate"
    /\ c_mask.dtype = "bool"
    /\ s_bare = NoSignal

\* both windows of a row have their lower bound below their upper bound
Ordered(row) == row[1] < row[2] /\ row[3] < row[4]

\* neither window of a row contains the energy
ClearOf(row, energy) ==
    /\ row[2] < energy \/ energy < row[1]
    /\ row[4] < energy \/ energy < row[3]

\* C10: in every state in which the table exists, every row has ordered
\* windows and neither window contains the energy of the row's line.
C10_WindowsOrderedAndClear ==
    w # NoTable =>
       \A r \in DOMAIN w : Ordered(w[r]) /\ ClearOf(w[r], LineEnergy[r])

\* the Pt_La lower window has been refined to [8.44, 8.65]
C10_Witness ==
    /\ pc = "LinesIntensity"
    /\ w[2][1] = RefinedLow
    /\ w[2][2] = RefinedHigh
    /\ w[2][3] = EstimatedWindows[2][3]
\* the shape of a 2D data array, in navigation order (x, y)
Shape2D(d) == <<Len(d[1]), Len(d)>>

\* C11: every intensity map derived from the bare-core cube has that cube's
\* navigation shape; the mask is the threshold of the map of the bare-core
\* cube; and from the cell that applies the mask on, the mask that is
\* applied has the navigation shape of the cube it is applied to and holds
\* the data of that mask.
C11_MaskMatchesCube ==
    /\ pt_la.dtype # "unset" =>
          /\ pt_la = LineIntensityMap(c)
          /\ pt_la.sig = c.nav
          /\ Shape2D(pt_la.data) = c.nav
    /\ mask.dtype # "unset" =>
          /\ mask.data = Masker(LineIntensityMap(c), MaskThreshold).data
          /\ Shape2D(mask.data) = c.nav
    /\ c_mask.dtype # "unset" =>
          /\ c_mask.nav = c.nav
          /\ Shape2D(c_mask.data) = c.nav
          /\ c_mask.data = mask.data

\* the mask has been applied to the bare-core cube in a run whose core-shell
\* cube has another navigation shape and would give another mask
C11_Witness ==
    /\ pc = "StackSpectra"
    /\ cs.nav # c.nav
    /\ \E y \in YAxis, x \in XAxis : ~c_mask.data[y][x]
\* C12: once loaded, the bare-core cube is changed by no cell; the
\* core-shell cube keeps its axes and values and changes only in the cell
\* that converts its dtype to float; the results attached to it change only
\* in the decomposition and blind-source-separation cells.
C12_CubesFrame ==
    [][ /\ c # NoSignal => c' = c
        /\ cs # NoSignal =>
              /\ cs'.nav = cs.nav /\ cs'.sig = cs.sig /\ cs'.data = cs.data
              /\ cs' # cs => pc = "Decompose" /\ cs' = ChangeDtype(cs, "float")
        /\ learning_results' # learning_results =>
              pc \in {"Decompose", "BlindSourceSeparation"} ]_vars

\* the whole pipeline has run on a cube that the mask does change (a masked
\* pixel holds counts), and the cubes are as loaded apart from the dtype of
\* the core-shell cube
C12_Witness ==
    /\ pc = "Done"
    /\ c.dtype = "int"
    /\ cs.dtype = "float"
    /\ s_bare.dtype = "float"
    /\ \E y \in YAxis, x \in XAxis :
          ~c_mask.data[y][x] /\ Sum(c.data[y][x]) > 0
\* the step of the pipeline a cell belongs to: 1 load, 2 source separation,
\* 3 masking, 4 aggregation, 5 window estimation, 6 window refinement,
\* 7 net intensities, 8 quantification, 9 past the last cell
Stage(p) ==
    CASE p = "Load" -> 1
      [] p \in {"Decompose", "BlindSourceSeparation", "GetFactor"} -> 2
      [] p \in {"Mask", "BuildMask"} -> 3
      [] p \in {"Aggregate", "StackSpectra"} -> 4
      [] p = "EstimateWindows" -> 5
      [] p \in {"RefineLow", "RefineHigh"} -> 6
      [] p = "LinesIntensity" -> 7
      [] p \in {"SetKFactors", "Quantify"} -> 8
      [] OTHER -> 9

IsSet(a) == a.dtype # "unset"

\* C14: the cells run in the order of the eight steps, none skipped and none
\* repeated; every name is bound only when the names it is computed from
\* are; the intensities are computed from the stacked spectra and the table
\* with the Pt_La lower window refined to [8.44, 8.65], not the table as
\* estimated; and the composition is computed from those intensities.
C14_FixedOrder ==
    /\ [][pc' # pc /\ pc' # "Failed" =>
             Stage(pc') \in {Stage(pc), Stage(pc) + 1}]_vars
    /\ [](/\ IsSet(s_bss) => IsSet(cs) /\ learning_results.bss_factors # <<>>
          /\ IsSet(pt_la) => IsSet(c)
          /\ IsSet(mask) => IsSet(pt_la)
          /\ IsSet(c_mask) => IsSet(mask)
          /\ IsSet(s_bare) => IsSet(c_mask)
          /\ IsSet(s) => IsSet(s_bare) /\ IsSet(s_bss)
          /\ w # NoTable => IsSet(s)
          /\ sI # NoResult =>
                /\ sI.signal = s /\ IsSet(s)
                /\ sI.background_windows = w
                /\ w[2][1] = RefinedLow /\ w[2][2] = RefinedHigh
                /\ w # EstimatedWindows
          /\ composition # NoResult =>
                /\ sI # NoResult
                /\ composition.intensities = sI
                /\ composition.kfactors = KFactorValues)

\* quantification has run on intensities computed from the refined table
C14_Witness ==
    /\ pc = "Done"
    /\ composition.op = "quantification"
    /\ composition.intensities.background_windows[2]
          = <<RefinedLow, RefinedHigh, EstimatedWindows[2][3],
              EstimatedWindows[2][4]>>
====
